---------------------------- MODULE Spec2Model ----------------------------
(***************************************************************************)
(* Keno odds simulator: the combinatorics (factorial, binomial), the       *)
(* hypergeometric probability, the analysis run of index.js and the        *)
(* payout-file request handler of the HTTP server.                         *)
(*                                                                         *)
(* JavaScript BigInt values are modelled as arbitrary-precision naturals   *)
(* (little-endian sequences of limbs), JavaScript Number values as IEEE    *)
(* 754 binary64 values with round-to-nearest-even.                         *)
(***************************************************************************)
EXTENDS Integers, Sequences, FiniteSets, TLC

(***************************************************************************)
(* BigInt: arbitrary-precision naturals.  A value is a sequence of limbs   *)
(* in 0..Base-1, least significant first, without leading zero limbs; the  *)
(* empty sequence is 0n.                                                   *)
(***************************************************************************)
Base == 2^15

Limb(a, i) == IF i >= 1 /\ i <= Len(a) THEN a[i] ELSE 0

RECURSIVE BigNorm(_)
BigNorm(a) ==
  IF a = <<>> THEN <<>>
  ELSE IF a[Len(a)] = 0 THEN BigNorm(SubSeq(a, 1, Len(a) - 1)) ELSE a

RECURSIVE BigOfInt(_)
BigOfInt(n) == IF n = 0 THEN <<>> ELSE <<n % Base>> \o BigOfInt(n \div Base)

RECURSIVE BigCmpFrom(_, _, _)
BigCmpFrom(a, b, i) ==
  IF i = 0 THEN 0
  ELSE IF a[i] > b[i] THEN 1
  ELSE IF a[i] < b[i] THEN -1
  ELSE BigCmpFrom(a, b, i - 1)

\* -1, 0 or 1 as a < b, a = b, a > b
BigCmp(a, b) ==
  IF Len(a) > Len(b) THEN 1
  ELSE IF Len(a) < Len(b) THEN -1
  ELSE BigCmpFrom(a, b, Len(a))

RECURSIVE BigAddFrom(_, _, _, _)
BigAddFrom(a, b, i, c) ==
  IF i > Len(a) /\ i > Len(b)
  THEN (IF c = 0 THEN <<>> ELSE <<c>>)
  ELSE LET s == Limb(a, i) + Limb(b, i) + c
       IN  <<s % Base>> \o BigAddFrom(a, b, i + 1, s \div Base)

BigAdd(a, b) == BigAddFrom(a, b, 1, 0)

RECURSIVE BigSubFrom(_, _, _, _)
BigSubFrom(a, b, i, br) ==
  IF i > Len(a) THEN <<>>
  ELSE LET s == a[i] - Limb(b, i) - br
       IN  IF s < 0 THEN <<s + Base>> \o BigSubFrom(a, b, i + 1, 1)
           ELSE <<s>> \o BigSubFrom(a, b, i + 1, 0)

\* a - b for a >= b
BigSub(a, b) == BigNorm(BigSubFrom(a, b, 1, 0))

RECURSIVE BigMulSmallFrom(_, _, _, _)
BigMulSmallFrom(a, m, i, c) ==
  IF i > Len(a) THEN (IF c = 0 THEN <<>> ELSE <<c>>)
  ELSE LET s == a[i] * m + c
       IN  <<s % Base>> \o BigMulSmallFrom(a, m, i + 1, s \div Base)

\* a * m for 0 <= m < Base
BigMulSmall(a, m) == IF m = 0 THEN <<>> ELSE BigMulSmallFrom(a, m, 1, 0)

\* a * Base^n
BigShlLimbs(a, n) == IF a = <<>> THEN <<>> ELSE [i \in 1..n |-> 0] \o a

RECURSIVE BigMulFrom(_, _, _)
BigMulFrom(a, b, i) ==
  IF i > Len(b) THEN <<>>
  ELSE BigAdd(BigShlLimbs(BigMulSmall(a, b[i]), i - 1), BigMulFrom(a, b, i + 1))

BigMul(a, b) == IF a = <<>> \/ b = <<>> THEN <<>> ELSE BigMulFrom(a, b, 1)

\* the result of one division step: digit qd (found first) in front of the
\* later digits
DivPush(rest, qd) ==
  IF qd >= 0 THEN [q |-> rest.q \o <<qd>>, r |-> rest.r] ELSE rest

RECURSIVE BigDivSmallFrom(_, _, _, _)
BigDivSmallFrom(a, d, i, r) ==
  IF i = 0 THEN [q |-> <<>>, r |-> r]
  ELSE DivPush(BigDivSmallFrom(a, d, i - 1, (r * Base + a[i]) % d),
               (r * Base + a[i]) \div d)

DivNorm(x) == [q |-> BigNorm(x.q), r |-> x.r]

\* quotient and remainder of a by d, 0 < d < Base
BigDivModSmall(a, d) == DivNorm(BigDivSmallFrom(a, d, Len(a), 0))

RECURSIVE QCorrect(_, _, _)
QCorrect(r, v, est) ==
  IF BigCmp(BigMulSmall(v, est), r) > 0 THEN QCorrect(r, v, est - 1) ELSE est

QEstimate(top2, vtop) ==
  IF top2 \div vtop > Base - 1 THEN Base - 1 ELSE top2 \div vtop

\* the quotient digit of r by v, where r < v * Base and v's top limb >= Base/2
QDigit(r, v) ==
  QCorrect(r, v, QEstimate(Limb(r, Len(v) + 1) * Base + Limb(r, Len(v)), v[Len(v)]))

RECURSIVE BigDivLoop(_, _, _, _)
DivStep(a, v, i, r1, qd) ==
  DivPush(BigDivLoop(a, v, i - 1, BigSub(r1, BigMulSmall(v, qd))), qd)

DivDigit(a, v, i, r1) == DivStep(a, v, i, r1, QDigit(r1, v))

\* the digits i..1 of a, divided by v with r the remainder so far
BigDivLoop(a, v, i, r) ==
  IF i = 0 THEN [q |-> <<>>, r |-> r]
  ELSE DivDigit(a, v, i, BigNorm(<<a[i]>> \o r))

DivUnscale(x, d) == [q |-> BigNorm(x.q), r |-> BigDivModSmall(x.r, d).q]

DivScaled(a, v, d) == DivUnscale(BigDivLoop(a, v, Len(a), <<>>), d)

\* quotient and remainder of a by b, b > 0 (long division, both scaled by d
\* so that the divisor's top limb is >= Base/2)
BigDivMod(a, b) ==
  IF BigCmp(a, b) < 0 THEN [q |-> <<>>, r |-> a]
  ELSE DivScaled(BigMulSmall(a, Base \div (b[Len(b)] + 1)),
                 BigMulSmall(b, Base \div (b[Len(b)] + 1)),
                 Base \div (b[Len(b)] + 1))

RECURSIVE Pow2(_)
Pow2(n) == IF n = 0 THEN 1 ELSE 2 * Pow2(n - 1)

RECURSIVE SmallBitLen(_)
SmallBitLen(x) == IF x = 0 THEN 0 ELSE 1 + SmallBitLen(x \div 2)

\* number of significant bits of a
BitLen(a) == IF a = <<>> THEN 0 ELSE 15 * (Len(a) - 1) + SmallBitLen(a[Len(a)])

\* a * 2^n
BigShl(a, n) == BigShlLimbs(BigMulSmall(a, Pow2(n % 15)), n \div 15)

\* floor(a / 2^n)
BigShr(a, n) ==
  IF n \div 15 >= Len(a) THEN <<>>
  ELSE BigDivModSmall(SubSeq(a, n \div 15 + 1, Len(a)), Pow2(n % 15)).q

\* bit n (0 = least significant) of a
BigBit(a, n) == (Limb(a, n \div 15 + 1) \div Pow2(n % 15)) % 2

RECURSIVE LimbsZero(_, _)
LimbsZero(a, n) == n = 0 \/ (Limb(a, n) = 0 /\ LimbsZero(a, n - 1))

\* a mod 2^n = 0
BigLowZero(a, n) ==
  LimbsZero(a, n \div 15) /\ Limb(a, n \div 15 + 1) % Pow2(n % 15) = 0

(***************************************************************************)
(* Number: IEEE 754 binary64.  A value is NaN, a signed infinity, a signed *)
(* zero, or finite and non-zero: (-1)^s * m * 2^e with m a BigInt of       *)
(* exactly MantBits bits, or of fewer bits and e = MinExp (subnormal).     *)
(***************************************************************************)
MantBits == 53
MinExp == -1074
MaxExp == 971

NaN == [k |-> "nan", s |-> 0, m |-> <<>>, e |-> 0]
NumInf(s) == [k |-> "inf", s |-> s, m |-> <<>>, e |-> 0]
NumZero(s) == [k |-> "zero", s |-> s, m |-> <<>>, e |-> 0]

SignXor(a, b) == IF a = b THEN 0 ELSE 1

\* the number of low bits of M that a binary64 with exponent >= MinExp drops
RoundShift(M, E) ==
  IF MinExp - E > BitLen(M) - MantBits THEN MinExp - E ELSE BitLen(M) - MantBits

\* round to nearest, ties to even: the dropped bits are more than half a
\* unit, or exactly half and the kept part is odd
RoundsUp(M, sh, sticky) ==
  /\ BigBit(M, sh - 1) = 1
  /\ (sticky \/ ~BigLowZero(M, sh - 1) \/ BigBit(M, sh) = 1)

RoundKeep(M, sh, sticky) ==
  IF sh <= 0 THEN BigShl(M, 0 - sh)
  ELSE IF RoundsUp(M, sh, sticky) THEN BigAdd(BigShr(M, sh), <<1>>)
  ELSE BigShr(M, sh)

NumFinite(s, m, e) ==
  IF e > MaxExp THEN NumInf(s) ELSE [k |-> "fin", s |-> s, m |-> m, e |-> e]

\* a carry out of the mantissa moves the exponent
RoundPack(s, m, e) ==
  IF m = <<>> THEN NumZero(s)
  ELSE IF BitLen(m) > MantBits THEN NumFinite(s, BigShr(m, 1), e + 1)
  ELSE NumFinite(s, m, e)

\* the binary64 nearest to (-1)^s * (M + f) * 2^E, ties to even, where
\* 0 <= f < 1 and f > 0 iff sticky
RoundToDouble(s, M, E, sticky) ==
  IF M = <<>> THEN NumZero(s)
  ELSE RoundPack(s, RoundKeep(M, RoundShift(M, E), sticky), E + RoundShift(M, E))

\* Number(b) for a non-negative BigInt b
NumOfBig(b) == RoundToDouble(0, b, 0, FALSE)

\* the Number of a small integer literal
NumOfInt(n) ==
  RoundToDouble(IF n < 0 THEN 1 ELSE 0, BigOfInt(IF n < 0 THEN 0 - n ELSE n), 0, FALSE)

NumNeg(x) == IF x.k = "nan" THEN x ELSE [x EXCEPT !.s = 1 - x.s]

\* x * y
NumMul(x, y) ==
  IF x.k = "nan" \/ y.k = "nan" THEN NaN
  ELSE IF (x.k = "inf" /\ y.k = "zero") \/ (x.k = "zero" /\ y.k = "inf") THEN NaN
  ELSE IF x.k = "inf" \/ y.k = "inf" THEN NumInf(SignXor(x.s, y.s))
  ELSE IF x.k = "zero" \/ y.k = "zero" THEN NumZero(SignXor(x.s, y.s))
  ELSE RoundToDouble(SignXor(x.s, y.s), BigMul(x.m, y.m), x.e + y.e, FALSE)

\* the quotient of the mantissas carries at least MantBits + 2 bits; what the
\* division drops is the sticky bit
DivShift(x, y) ==
  IF MantBits + 3 + BitLen(y.m) - BitLen(x.m) > 0
  THEN MantBits + 3 + BitLen(y.m) - BitLen(x.m) ELSE 0

DivRound(s, qr, e) == RoundToDouble(s, qr.q, e, qr.r # <<>>)

\* x / y
NumDiv(x, y) ==
  IF x.k = "nan" \/ y.k = "nan" THEN NaN
  ELSE IF (x.k = "zero" /\ y.k = "zero") \/ (x.k = "inf" /\ y.k = "inf") THEN NaN
  ELSE IF x.k = "inf" \/ y.k = "zero" THEN NumInf(SignXor(x.s, y.s))
  ELSE IF x.k = "zero" \/ y.k = "inf" THEN NumZero(SignXor(x.s, y.s))
  ELSE DivRound(SignXor(x.s, y.s),
                BigDivMod(BigShl(x.m, DivShift(x, y)), y.m),
                x.e - y.e - DivShift(x, y))

\* the sum of two finite non-zero Numbers whose mantissas mx, my are aligned
\* to the exponent e
AddAligned(x, y, mx, my, e) ==
  IF x.s = y.s THEN RoundToDouble(x.s, BigAdd(mx, my), e, FALSE)
  ELSE IF BigCmp(mx, my) = 0 THEN NumZero(0)
  ELSE RoundToDouble(IF BigCmp(mx, my) > 0 THEN x.s ELSE y.s,
                     IF BigCmp(mx, my) > 0 THEN BigSub(mx, my) ELSE BigSub(my, mx),
                     e, FALSE)

MinOf(a, b) == IF a < b THEN a ELSE b

\* x + y
NumAdd(x, y) ==
  IF x.k = "nan" \/ y.k = "nan" THEN NaN
  ELSE IF x.k = "inf" /\ y.k = "inf" THEN (IF x.s = y.s THEN x ELSE NaN)
  ELSE IF x.k = "inf" THEN x
  ELSE IF y.k = "inf" THEN y
  ELSE IF x.k = "zero" /\ y.k = "zero" THEN NumZero(IF x.s = 1 /\ y.s = 1 THEN 1 ELSE 0)
  ELSE IF x.k = "zero" THEN y
  ELSE IF y.k = "zero" THEN x
  ELSE AddAligned(x, y, BigShl(x.m, x.e - MinOf(x.e, y.e)),
                  BigShl(y.m, y.e - MinOf(x.e, y.e)), MinOf(x.e, y.e))

\* x - y
NumSub(x, y) == NumAdd(x, NumNeg(y))

\* x > y for finite non-zero x and y
FiniteGt(x, y) ==
  IF x.s # y.s THEN x.s = 0
  ELSE IF x.s = 0
  THEN BigCmp(BigShl(x.m, x.e - MinOf(x.e, y.e)), BigShl(y.m, y.e - MinOf(x.e, y.e))) > 0
  ELSE BigCmp(BigShl(x.m, x.e - MinOf(x.e, y.e)), BigShl(y.m, y.e - MinOf(x.e, y.e))) < 0

\* x > y
NumGt(x, y) ==
  IF x.k = "nan" \/ y.k = "nan" THEN FALSE
  ELSE IF x.k = "inf" THEN x.s = 0 /\ (y.k # "inf" \/ y.s = 1)
  ELSE IF y.k = "inf" THEN y.s = 1
  ELSE IF x.k = "zero" THEN y.k = "fin" /\ y.s = 1
  ELSE IF y.k = "zero" THEN x.s = 0
  ELSE FiniteGt(x, y)

\* x === 0
NumIsZero(x) == x.k = "zero"

\* ToBoolean(x) is false
NumIsFalsy(x) == x.k \in {"zero", "nan"}

\* x is a non-negative integer
NumIsNat(x) ==
  \/ x.k = "zero"
  \/ x.k = "fin" /\ x.s = 0 /\ (x.e >= 0 \/ BigLowZero(x.m, 0 - x.e))

\* the BigInt equal to the non-negative integer Number x
NumToBig(x) ==
  IF x.k = "zero" THEN <<>>
  ELSE IF x.e >= 0 THEN BigShl(x.m, x.e) ELSE BigShr(x.m, 0 - x.e)

RECURSIVE BigPow10(_)
BigPow10(d) == IF d = 0 THEN <<1>> ELSE BigMulSmall(BigPow10(d - 1), 10)

\* the integer nearest to N * 2^e, the larger of two
ScaleRound(N, e) ==
  IF e >= 0 THEN BigShl(N, e)
  ELSE BigShr(BigAdd(N, BigShl(<<1>>, 0 - e - 1)), 0 - e)

\* Number.prototype.toFixed(d): the integer n for which n / 10^d - |x| is as
\* close to zero as possible (the larger n of two), with the sign of x; the
\* text is that integer with a decimal point before its last d digits.
ToFixed(x, d) ==
  IF x.k = "nan" THEN [text |-> "NaN", neg |-> FALSE, n |-> <<>>]
  ELSE IF x.k = "inf" THEN [text |-> "Infinity", neg |-> x.s = 1, n |-> <<>>]
  ELSE IF x.k = "zero" THEN [text |-> "digits", neg |-> FALSE, n |-> <<>>]
  ELSE [text |-> "digits", neg |-> x.s = 1, n |-> ScaleRound(BigMul(x.m, BigPow10(d)), x.e)]

(***************************************************************************)
(* index.js: game constants and math utilities                             *)
(***************************************************************************)
TOTAL_NUMBERS == 80
NUMBERS_DRAWN == 20
NUMBERS_NOT_DRAWN == TOTAL_NUMBERS - NUMBERS_DRAWN

\* "result" when the loop of factorial(n) has run for 2n..i
RECURSIVE factorialLoop(_)
factorialLoop(i) ==
  IF BigCmp(i, <<2>>) < 0 THEN <<1>>
  ELSE BigMul(factorialLoop(BigSub(i, <<1>>)), i)

\* factorial(n) for a BigInt n
factorial(n) == IF BigCmp(n, <<1>>) <= 0 THEN <<1>> ELSE factorialLoop(n)

\* a substitution that is one off when it takes the complement
binomialKOneOff(n, k) == IF k > n - k THEN n - k + 1 ELSE k

\* k after "if (k > n - k) k = n - k"
binomialK(n, k) == IF k > n - k THEN n - k ELSE k

\* "numerator" when the loop of binomial has run for 0n..i-1n
RECURSIVE numeratorLoop(_, _)
numeratorLoop(nBig, i) ==
  IF i = <<>> THEN <<1>>
  ELSE BigMul(numeratorLoop(nBig, BigSub(i, <<1>>)),
              BigSub(nBig, BigSub(i, <<1>>)))

\* the local "numerator" of binomial(n, k) on its general path (0 < k < n)
binomialNumerator(n, k) ==
  numeratorLoop(BigOfInt(n), BigOfInt(binomialK(n, k)))

\* the factorial of one more than the number of factors
binomialDenominatorNext(n, k) == factorial(BigOfInt(binomialK(n, k) + 1))

\* the local "denominator" of binomial(n, k) on its general path
binomialDenominator(n, k) == factorial(BigOfInt(binomialK(n, k)))

\* an edge test that also returns 0 for k = 0
binomialZeroAtZero(n, k) ==
  IF k <= 0 \/ k > n THEN NumOfInt(0)
  ELSE IF k = 0 \/ k = n THEN NumOfInt(1)
  ELSE NumOfBig(BigDivMod(binomialNumerator(n, k), binomialDenominator(n, k)).q)

\* binomial(n, k) for integer Numbers n and k; a Number
binomial(n, k) ==
  IF k < 0 \/ k > n THEN NumOfInt(0)
  ELSE IF k = 0 \/ k = n THEN NumOfInt(1)
  ELSE NumOfBig(BigDivMod(binomialNumerator(n, k), binomialDenominator(n, k)).q)

\* the locals and the returned Number of a call that reaches the formula
formulaFrame(waysToHit, waysToMiss, totalWays) ==
  [path |-> "formula", waysToHit |-> waysToHit, waysToMiss |-> waysToMiss,
   totalWays |-> totalWays,
   value |-> NumDiv(NumMul(waysToHit, waysToMiss), totalWays)]

\* the call frame of calculateProbability(picks, hits): which return is
\* taken, the three locals, and the returned Number
calculateProbabilityFrame(picks, hits) ==
  IF hits > picks \/ hits > NUMBERS_DRAWN \/ (picks - hits) > NUMBERS_NOT_DRAWN
  THEN [path |-> "guard", waysToHit |-> NaN, waysToMiss |-> NaN,
        totalWays |-> NaN, value |-> NumOfInt(0)]
  ELSE formulaFrame(binomial(NUMBERS_DRAWN, hits),
                    binomial(NUMBERS_NOT_DRAWN, picks - hits),
                    binomial(TOTAL_NUMBERS, picks))

calculateProbability(picks, hits) == calculateProbabilityFrame(picks, hits).value

\* probabilityToOdds(probability); the locale rendering of 1 / probability
\* (grouping, at most two fraction digits) is kept as the Number it renders
probabilityToOdds(probability) ==
  IF NumIsZero(probability) THEN [text |-> "impossible", x |-> NaN]
  ELSE IF probability = NumOfInt(1) THEN [text |-> "1 in 1", x |-> NaN]
  ELSE [text |-> "1 in X", x |-> NumDiv(NumOfInt(1), probability)]

(***************************************************************************)
(* index.js: parsePayoutsCsv.  A file is a sequence of data rows (the rows *)
(* after the header); a row has the text of its first column and of the    *)
(* columns 1..11, "" for an empty or absent cell.                          *)
(***************************************************************************)
MAX_PICKS == 10
HIT_COLUMNS == 11

\* the numeric texts used in payout files, as numerator and denominator
Decimal(text) ==
  CASE text = "0"   -> <<0, 1>>
    [] text = "1"   -> <<1, 1>>
    [] text = "2"   -> <<2, 1>>
    [] text = "3"   -> <<3, 1>>
    [] text = "4"   -> <<4, 1>>
    [] text = "5"   -> <<5, 1>>
    [] text = "6"   -> <<6, 1>>
    [] text = "7"   -> <<7, 1>>
    [] text = "8"   -> <<8, 1>>
    [] text = "9"   -> <<9, 1>>
    [] text = "10"  -> <<10, 1>>
    [] text = "15"  -> <<15, 1>>
    [] text = "65"  -> <<65, 1>>
    [] text = "3.8" -> <<38, 10>>
    [] text = "0.5" -> <<1, 2>>
    [] text = "-2"  -> <<-2, 1>>

NumericTexts ==
  {"0", "1", "2", "3", "4", "5", "6", "7", "8", "9", "10", "15", "65", "3.8", "0.5", "-2"}

\* parseFloat(text): the Number nearest to the decimal, NaN for other text
parseFloat(text) ==
  IF text \in NumericTexts
  THEN NumDiv(NumOfInt(Decimal(text)[1]), NumOfInt(Decimal(text)[2]))
  ELSE NaN

\* isNaN(parseInt(text, 10)) for the text of a first column
parseIntIsNaN(text) == text \notin NumericTexts

\* parseInt(text, 10): the integer that the leading digits of the text spell
parseInt(text) ==
  IF Decimal(text)[1] < 0
  THEN 0 - ((0 - Decimal(text)[1]) \div Decimal(text)[2])
  ELSE Decimal(text)[1] \div Decimal(text)[2]

\* the object built for one row: the filled columns, parsed
parseRow(row) ==
  [hits \in {h \in 0..(HIT_COLUMNS - 1) : row.cells[h + 1] # ""} |->
     parseFloat(row.cells[hits + 1])]

\* a row is skipped when its first column is empty or not a number
rowKept(row) == row.first # "" /\ ~parseIntIsNaN(row.first)

\* the index of the last kept row of the file with this picks value
lastRowOf(rows, p) ==
  CHOOSE i \in 1..Len(rows) :
    /\ rowKept(rows[i]) /\ parseInt(rows[i].first) = p
    /\ \A j \in (i + 1)..Len(rows) :
         ~(rowKept(rows[j]) /\ parseInt(rows[j].first) = p)

\* parsePayoutsCsv: payouts[picks][hits] = multiplier
parsePayoutsCsv(rows) ==
  [p \in {parseInt(rows[i].first) : i \in {j \in 1..Len(rows) : rowKept(rows[j])}} |->
     parseRow(rows[lastRowOf(rows, p)])]

(***************************************************************************)
(* State                                                                   *)
(***************************************************************************)
VARIABLES
  pc,                  \* position in analyzeKeno
  payouts,             \* the argument of analyzeKeno
  picks, hits,         \* the loop variables of the section being run
  totalExpectedValue,  \* locals of the per-pick section
  hasAnyPayout,
  totalEV,             \* locals of the summary section
  maxPayout,
  bestWinOdds,
  out,                 \* the lines written to the console, in order
  calls,               \* number of calculateProbability calls of the run
  call,                \* a single call of binomial or calculateProbability
  request,             \* the path of the HTTP request being served
  response,            \* the response written for it
  fileRead             \* the path given to readFileSync, "/" between segments

analysisVars == <<pc, payouts, picks, hits, totalExpectedValue, hasAnyPayout,
                  totalEV, maxPayout, bestWinOdds, out, calls>>

serverVars == <<request, response, fileRead>>

vars == <<analysisVars, call, serverVars>>

Zero == NumOfInt(0)
One == NumOfInt(1)
Hundred == NumOfInt(100)

\* a lookup whose default for an absent entry is 1 instead of 0
payoutOfDefaultOne(table, p, h) ==
  IF p \in DOMAIN table /\ h \in DOMAIN table[p] /\ ~NumIsFalsy(table[p][h])
  THEN table[p][h]
  ELSE One

\* payouts[picks]?.[hits] || 0
payoutOf(table, p, h) ==
  IF p \in DOMAIN table /\ h \in DOMAIN table[p] /\ ~NumIsFalsy(table[p][h])
  THEN table[p][h]
  ELSE Zero

\* `${payout}x` and (maxPayout + 'x'): the Number and the suffix
withX(x) == <<x, "x">>

(***************************************************************************)
(* analyzeKeno(payouts)                                                    *)
(***************************************************************************)
\* the console line of one outcome
rowLine(p, h, probability, payout, evContribution) ==
  [line               |-> "row",
   picks              |-> p,
   hits               |-> h,
   probabilityPercent |-> ToFixed(NumMul(probability, Hundred), 6),
   odds               |-> probabilityToOdds(probability),
   payoutStr          |-> IF NumGt(payout, Zero) THEN withX(payout) ELSE <<"-">>,
   evStr              |-> IF NumGt(payout, Zero)
                          THEN <<ToFixed(evContribution, 6)>> ELSE <<"-">>]

DetailRowBody(probability, payout, evContribution) ==
  /\ totalExpectedValue' = NumAdd(totalExpectedValue, evContribution)
  /\ hasAnyPayout' = (hasAnyPayout \/ NumGt(payout, Zero))
  /\ out' = Append(out, rowLine(picks, hits, probability, payout, evContribution))

DetailRowWith(probability, payout) ==
  DetailRowBody(probability, payout, NumMul(probability, payout))

\* one iteration of the inner loop of the per-pick section
DetailRow ==
  /\ pc = "detail"
  /\ hits <= picks
  /\ DetailRowWith(calculateProbability(picks, hits), payoutOf(payouts, picks, hits))
  /\ hits' = hits + 1
  /\ calls' = calls + 1
  /\ UNCHANGED <<pc, payouts, picks, totalEV, maxPayout, bestWinOdds, call, serverVars>>

\* the three figures printed for a pick level, from its expected value
figures(ev) ==
  [expectedValue |-> ToFixed(ev, 6),
   houseEdge     |-> ToFixed(NumMul(NumSub(One, ev), Hundred), 2),
   rtp           |-> ToFixed(NumMul(ev, Hundred), 2)]

\* the summary of one pick level, and the step of the outer loop
DetailSummary ==
  /\ pc = "detail"
  /\ hits > picks
  /\ out' = Append(out, [line |-> "pick", picks |-> picks,
                         figures |-> figures(totalExpectedValue)])
  /\ IF picks + 1 <= MAX_PICKS
     THEN /\ picks' = picks + 1
          /\ UNCHANGED pc
     ELSE /\ picks' = 1
          /\ pc' = "summary"
  /\ hits' = 0
  /\ totalExpectedValue' = Zero
  /\ hasAnyPayout' = FALSE
  /\ UNCHANGED <<payouts, totalEV, maxPayout, bestWinOdds, calls, call, serverVars>>

\* a summary that adds the multipliers without weighting them
SummaryRowUnweighted(prob, payout) ==
  /\ totalEV' = NumAdd(totalEV, payout)
  /\ maxPayout' = IF NumGt(payout, maxPayout) THEN payout ELSE maxPayout
  /\ bestWinOdds' = IF NumGt(payout, Zero) THEN NumAdd(bestWinOdds, prob)
                    ELSE bestWinOdds

SummaryRowWith(prob, payout) ==
  /\ totalEV' = NumAdd(totalEV, NumMul(prob, payout))
  /\ maxPayout' = IF NumGt(payout, maxPayout) THEN payout ELSE maxPayout
  /\ bestWinOdds' = IF NumGt(payout, Zero) THEN NumAdd(bestWinOdds, prob)
                    ELSE bestWinOdds

\* one iteration of the inner loop of the summary section
SummaryRow ==
  /\ pc = "summary"
  /\ hits <= picks
  /\ SummaryRowWith(calculateProbability(picks, hits), payoutOf(payouts, picks, hits))
  /\ hits' = hits + 1
  /\ calls' = calls + 1
  /\ UNCHANGED <<pc, payouts, picks, totalExpectedValue, hasAnyPayout, out, call, serverVars>>

\* a summary section that starts over after its last pick level
SummaryLineRestarting ==
  /\ pc = "summary"
  /\ hits > picks
  /\ out' = out
  /\ picks' = IF picks + 1 <= MAX_PICKS THEN picks + 1 ELSE 1
  /\ hits' = 0
  /\ totalEV' = Zero
  /\ maxPayout' = Zero
  /\ bestWinOdds' = Zero
  /\ UNCHANGED <<pc, payouts, totalExpectedValue, hasAnyPayout, calls, call, serverVars>>

\* one line of the summary table, and the step of the outer loop
SummaryLine ==
  /\ pc = "summary"
  /\ hits > picks
  /\ out' = Append(out, [line       |-> "summary",
                         picks      |-> picks,
                         figures    |-> figures(totalEV),
                         maxPayout  |-> withX(maxPayout),
                         winOddsStr |-> <<"1 in ", ToFixed(NumDiv(One, bestWinOdds), 2)>>])
  /\ IF picks + 1 <= MAX_PICKS
     THEN /\ picks' = picks + 1
          /\ UNCHANGED pc
     ELSE /\ picks' = picks
          /\ pc' = "done"
  /\ hits' = 0
  /\ totalEV' = Zero
  /\ maxPayout' = Zero
  /\ bestWinOdds' = Zero
  /\ UNCHANGED <<payouts, totalExpectedValue, hasAnyPayout, calls, call, serverVars>>

(***************************************************************************)
(* The payout files of the analysis runs                                   *)
(***************************************************************************)
EmptyCells == [c \in 1..HIT_COLUMNS |-> ""]

PickTexts == <<"1", "2", "3", "4", "5", "6", "7", "8", "9", "10">>

\* the cells of the row of pick level p in a file of the given shape
CellsOf(shape, text, p) ==
  CASE shape = "top"   -> [c \in 1..HIT_COLUMNS |-> IF c - 1 = p THEN text ELSE ""]
    [] shape = "all"   -> [c \in 1..HIT_COLUMNS |-> text]
    [] shape = "upper" -> [c \in 1..HIT_COLUMNS |->
                             IF 2 * (c - 1) >= p /\ c - 1 <= p THEN PickTexts[c - 1] ELSE ""]
    [] shape = "blank" -> EmptyCells

RECURSIVE RowsOf(_, _, _, _)
RowsOf(shape, text, missing, p) ==
  IF p > MAX_PICKS THEN <<>>
  ELSE IF p = missing THEN RowsOf(shape, text, missing, p + 1)
  ELSE <<[first |-> PickTexts[p], cells |-> CellsOf(shape, text, p)]>>
         \o RowsOf(shape, text, missing, p + 1)

\* the table of the README, followed by an empty line and a comment line
ReadmeFile ==
  << [first |-> "1", cells |-> [EmptyCells EXCEPT ![2] = "3.8"]],
     [first |-> "2", cells |-> [EmptyCells EXCEPT ![3] = "15"]],
     [first |-> "3", cells |-> [EmptyCells EXCEPT ![3] = "0.5"]],
     [first |-> "3", cells |-> [EmptyCells EXCEPT ![3] = "2", ![4] = "65"]],
     [first |-> "", cells |-> EmptyCells],
     [first |-> "total", cells |-> [EmptyCells EXCEPT ![2] = "1"]] >>

Shapes == {<<"top", "3.8">>, <<"all", "1">>, <<"upper", "">>, <<"all", "0">>,
           <<"top", "n/a">>, <<"all", "-2">>, <<"blank", "">>}

PayoutFiles ==
  {ReadmeFile} \cup
  {RowsOf(sh[1], sh[2], missing, 1) : sh \in Shapes, missing \in 0..MAX_PICKS}

AnalysisInit ==
  /\ pc = "detail"
  /\ payouts \in {parsePayoutsCsv(f) : f \in PayoutFiles}
  /\ picks = 1
  /\ hits = 0
  /\ totalExpectedValue = Zero
  /\ hasAnyPayout = FALSE
  /\ totalEV = Zero
  /\ maxPayout = Zero
  /\ bestWinOdds = Zero
  /\ out = <<>>
  /\ calls = 0

\* no analysis is running
AnalysisIdle ==
  /\ pc = "idle"
  /\ payouts = <<>>
  /\ picks = 0
  /\ hits = 0
  /\ totalExpectedValue = Zero
  /\ hasAnyPayout = FALSE
  /\ totalEV = Zero
  /\ maxPayout = Zero
  /\ bestWinOdds = Zero
  /\ out = <<>>
  /\ calls = 0

NoCall == [fn |-> "none"]

ServerIdle ==
  /\ request = <<>>
  /\ response = [status |-> 0, body |-> "idle"]
  /\ fileRead = <<>>

AnalysisNext == DetailRow \/ DetailSummary \/ SummaryRow \/ SummaryLine

\* node index.js: one analysis run on one payout table
Init == AnalysisInit /\ call = NoCall /\ ServerIdle

Next == AnalysisNext

Spec == Init /\ [][Next]_vars

(***************************************************************************)
(* Properties of an analysis run                                           *)
(***************************************************************************)
LastLine == out[Len(out)]

LastLineIs(kind) == out # <<>> /\ LastLine.line = kind

Digits(n) == [text |-> "digits", neg |-> FALSE, n |-> BigOfInt(n)]

\* the expected value of level p: the terms of hits 0..h added in
\* ascending order
RECURSIVE ExpectedValueUpTo(_, _, _)
ExpectedValueUpTo(table, p, h) ==
  IF h < 0 THEN Zero
  ELSE NumAdd(ExpectedValueUpTo(table, p, h - 1),
              NumMul(calculateProbability(p, h), payoutOf(table, p, h)))

\* the sum of the probabilities of the hits 0..h of level p that pay
RECURSIVE CombinedWinProbability(_, _, _)
CombinedWinProbability(table, p, h) ==
  IF h < 0 THEN Zero
  ELSE IF NumGt(payoutOf(table, p, h), Zero)
  THEN NumAdd(CombinedWinProbability(table, p, h - 1), calculateProbability(p, h))
  ELSE CombinedWinProbability(table, p, h - 1)

\* total outcome evaluations of one section: levels 1..10 with picks + 1
\* outcomes each
EvaluationsPerSection == (MAX_PICKS * (MAX_PICKS + 3)) \div 2

\* C3: whenever a summary line is written for a pick level whose combined
\* win probability is 0, its "best odds to win" text is "impossible" (and
\* so carries no Infinity or NaN).
C3_ZeroWinIsImpossible ==
  (LastLineIs("summary")
   /\ NumIsZero(CombinedWinProbability(payouts, LastLine.picks, LastLine.picks)))
  => LastLine.winOddsStr = <<"impossible">>

\* C5: every line written for an outcome without a table entry shows no
\* multiplier; for a pick level without any entry the pick line and the
\* summary line report expected value 0.000000, house edge 100.00, RTP 0.00
\* and max payout 0x; and a finished run has written all twenty of these
\* lines, whichever level is missing.
C5_MissingLevelFigures ==
  [expectedValue |-> Digits(0), houseEdge |-> Digits(10000), rtp |-> Digits(0)]

C5_MissingEntryIsZero ==
  /\ (LastLineIs("row")
      /\ (LastLine.picks \notin DOMAIN payouts
          \/ LastLine.hits \notin DOMAIN payouts[LastLine.picks]))
     => (LastLine.payoutStr = <<"-">> /\ LastLine.evStr = <<"-">>)
  /\ (LastLineIs("pick") /\ LastLine.picks \notin DOMAIN payouts)
     => LastLine.figures = C5_MissingLevelFigures
  /\ (LastLineIs("summary") /\ LastLine.picks \notin DOMAIN payouts)
     => (LastLine.figures = C5_MissingLevelFigures
         /\ LastLine.maxPayout = withX(Zero))
  /\ pc = "done"
     => \A p \in 1..MAX_PICKS :
          /\ \E i \in DOMAIN out : out[i].line = "pick" /\ out[i].picks = p
          /\ \E i \in DOMAIN out : out[i].line = "summary" /\ out[i].picks = p

\* a finished run on a table without level 4 whose level 5 pays
C5_Witness ==
  /\ pc = "done"
  /\ 4 \notin DOMAIN payouts
  /\ 5 \in DOMAIN payouts /\ NumGt(payoutOf(payouts, 5, 5), Zero)
  /\ \E i \in DOMAIN out :
       /\ out[i].line = "summary" /\ out[i].picks = 4
       /\ out[i].figures = C5_MissingLevelFigures

\* the figures of a pick level whose expected value is ev
C6_Figures(ev) ==
  [expectedValue |-> ToFixed(ev, 6),
   houseEdge     |-> ToFixed(NumMul(NumSub(One, ev), Hundred), 2),
   rtp           |-> ToFixed(NumMul(ev, Hundred), 2)]

\* C6: the figures of every summary line are those of the sum, in
\* ascending order of hits, of probability times multiplier, with house
\* edge 1 - EV and RTP EV; and the pick line of the same level in the detail
\* section reports the same three figures.
C6_SameExpectedValue ==
  LastLineIs("summary")
  => /\ \A ev \in {ExpectedValueUpTo(payouts, LastLine.picks, LastLine.picks)} :
          LastLine.figures = C6_Figures(ev)
     /\ \E i \in DOMAIN out :
          /\ out[i].line = "pick" /\ out[i].picks = LastLine.picks
          /\ out[i].figures = LastLine.figures

\* the summary line of level 1 of a table paying 3.8x on 1 hit of 1:
\* EV 0.950000, house edge 5.00, RTP 95.00
C6_Witness ==
  /\ LastLineIs("summary") /\ LastLine.picks = 1
  /\ 1 \in DOMAIN payouts /\ DOMAIN payouts[1] = {1}
  /\ payouts[1][1] = parseFloat("3.8")
  /\ LastLine.figures = [expectedValue |-> Digits(950000),
                         houseEdge |-> Digits(500), rtp |-> Digits(9500)]

\* the steps of one section from pick level p on: p + 1 outcome evaluations
\* and one closing line for each level
StepsFrom(p) ==
  (MAX_PICKS * (MAX_PICKS + 5)) \div 2 - ((p - 1) * (p + 4)) \div 2

\* the steps the run still has to take
StepsLeft ==
  IF pc = "detail" THEN StepsFrom(1) + StepsFrom(picks) - hits
  ELSE IF pc = "summary" THEN StepsFrom(picks) - hits
  ELSE 0

\* C8 as stated: the run never makes more than 10 x 11 = 110 calls of
\* calculateProbability.
C8_AtMost110Calls == calls <= MAX_PICKS * HIT_COLUMNS

\* C8, amended: the run never makes more than 130 calls of
\* calculateProbability (65 in each of its two sections), a finished run
\* has made exactly 130, and the run terminates:
\* it is in one of its two loops with a loop condition to evaluate until it
\* is done, and every step it takes leaves exactly one step less to take.
C8_AtMost130Calls ==
  /\ [](/\ calls <= 2 * EvaluationsPerSection
        /\ pc \in {"detail", "summary", "done"}
        /\ picks \in 1..MAX_PICKS /\ hits \in 0..(picks + 1)
        /\ StepsLeft >= 0
        /\ (StepsLeft = 0) = (pc = "done")
        /\ pc = "done" => calls = 2 * EvaluationsPerSection)
  /\ [][StepsLeft' = StepsLeft - 1]_vars

\* a finished run that made all 130 calls
C8_Witness == pc = "done" /\ calls = 130 /\ calls = 2 * EvaluationsPerSection

\* a summary line written for a level that cannot win
C3_Reached ==
  /\ LastLineIs("summary")
  /\ NumIsZero(CombinedWinProbability(payouts, LastLine.picks, LastLine.picks))
  /\ LastLine.winOddsStr = <<"1 in ", [text |-> "Infinity", neg |-> FALSE, n |-> <<>>]>>

(***************************************************************************)
(* Single calls of the math utilities                                      *)
(***************************************************************************)
MaxN == 80
KPad == 2
ArgPad == 2

BinomialInit ==
  /\ call \in [fn : {"binomial"}, n : 0..MaxN, k : (0 - KPad)..(MaxN + KPad),
               done : {FALSE}, ret : {NaN}]
  /\ AnalysisIdle /\ ServerIdle

CallBinomial ==
  /\ call.fn = "binomial"
  /\ ~call.done
  /\ call' = [call EXCEPT !.done = TRUE, !.ret = binomial(call.n, call.k)]
  /\ UNCHANGED <<analysisVars, serverVars>>

SpecBinomial == BinomialInit /\ [][CallBinomial]_vars

NoFrame ==
  [path |-> "none", waysToHit |-> NaN, waysToMiss |-> NaN, totalWays |-> NaN,
   value |-> NaN]

ProbabilityInit ==
  /\ call \in [fn : {"calculateProbability"},
               picks : (0 - ArgPad)..(MAX_PICKS + ArgPad),
               hits : (0 - ArgPad)..(MAX_PICKS + ArgPad),
               done : {FALSE}, frame : {NoFrame}]
  /\ AnalysisIdle /\ ServerIdle

CallProbability ==
  /\ call.fn = "calculateProbability"
  /\ ~call.done
  /\ call' = [call EXCEPT !.done = TRUE,
                          !.frame = calculateProbabilityFrame(call.picks, call.hits)]
  /\ UNCHANGED <<analysisVars, serverVars>>

SpecProbability == ProbabilityInit /\ [][CallProbability]_vars

(***************************************************************************)
(* Properties of the math utilities                                        *)
(***************************************************************************)
\* Pascal's triangle, row n + 1 from row n
NextRow(row) ==
  [j \in 1..(Len(row) + 1) |->
     IF j = 1 \/ j = Len(row) + 1 THEN <<1>> ELSE BigAdd(row[j - 1], row[j])]

RECURSIVE PascalRows(_, _)
PascalRows(rows, n) ==
  IF Len(rows) > n THEN rows
  ELSE PascalRows(Append(rows, NextRow(rows[Len(rows)])), n)

PascalTriangle == PascalRows(<<<<<<1>>>>>>, MaxN)

\* C(n, k) by Pascal's recurrence, 0 outside 0..n
Pascal(n, k) == IF k < 0 \/ k > n THEN <<>> ELSE PascalTriangle[n + 1][k + 1]

\* x is the Number of exactly the integer b
ExactlyBig(x, b) == NumIsNat(x) /\ NumToBig(x) = b

TwoTo53 == BigShl(<<1>>, MantBits)

\* C2: every call binomial(n, k) with n in 0..80 returns exactly the integer
\* of Pascal's recurrence (0 for k < 0 or k > n, 1 for k = 0 or k = n), and
\* binomial(80, 10) returns 1646492110120.
C2_ExactBinomial ==
  call.done =>
    /\ ExactlyBig(call.ret, Pascal(call.n, call.k))
    /\ (call.n = 80 /\ call.k = 10)
       => ExactlyBig(call.ret,
                     BigAdd(BigMul(BigOfInt(1646492), BigOfInt(1000000)),
                            BigOfInt(110120)))

\* C7: every call binomial(n, k) with 0 <= k <= n returns the value that
\* binomial(n, n - k) returns.
C7_Symmetry ==
  (call.done /\ 0 <= call.k /\ call.k <= call.n)
  => call.ret = binomial(call.n, call.n - call.k)

\* binomial(80, 70), computed with k replaced by 10
C7_Witness ==
  /\ call.done /\ call.n = 80 /\ call.k = 70
  /\ ExactlyBig(call.ret, Pascal(80, 10))
  /\ call.ret = binomial(80, 10)

ValidDomain(p, h) == p \in 1..MAX_PICKS /\ h \in 0..p

\* the exact number of ways to hit h of p picks
RECURSIVE WaysUpTo(_, _)
WaysUpTo(p, h) ==
  IF h < 0 THEN <<>>
  ELSE BigAdd(WaysUpTo(p, h - 1),
              BigMul(NumToBig(binomial(NUMBERS_DRAWN, h)),
                     NumToBig(binomial(NUMBERS_NOT_DRAWN, p - h))))

RECURSIVE ProbabilityUpTo(_, _)
ProbabilityUpTo(p, h) ==
  IF h < 0 THEN Zero
  ELSE NumAdd(ProbabilityUpTo(p, h - 1), calculateProbability(p, h))

Tolerance == NumDiv(One, NumMul(NumOfInt(100000), NumOfInt(10000)))

Within(x, y, eps) == ~NumGt(NumSub(x, y), eps) /\ ~NumGt(NumSub(y, x), eps)

\* C1: for the pick level p of every call in the valid domain, the ways to
\* hit h of p, added over h in 0..p, are all the C(80, p) ways to pick, the
\* call's own term being waysToHit * waysToMiss of its totalWays; and the
\* probabilities of the level add up to 1 within 1e-9.
C1_ProbabilitiesSumToOne ==
  (call.done /\ ValidDomain(call.picks, call.hits))
  => /\ call.frame.path = "formula"
     /\ NumIsNat(call.frame.totalWays)
     /\ WaysUpTo(call.picks, call.picks) = NumToBig(call.frame.totalWays)
     /\ BigAdd(BigAdd(WaysUpTo(call.picks, call.hits - 1),
                      BigMul(NumToBig(call.frame.waysToHit),
                             NumToBig(call.frame.waysToMiss))),
               BigSub(WaysUpTo(call.picks, call.picks),
                      WaysUpTo(call.picks, call.hits)))
        = Pascal(TOTAL_NUMBERS, call.picks)
     /\ Within(ProbabilityUpTo(call.picks, call.picks), One, Tolerance)

\* the call calculateProbability(10, 10): 1 way of C(80, 10)
C1_Witness ==
  /\ call.done /\ call.picks = 10 /\ call.hits = 10
  /\ call.frame.path = "formula"
  /\ ExactlyBig(call.frame.waysToHit, Pascal(20, 10))
  /\ call.frame.waysToMiss = One
  /\ ExactlyBig(call.frame.totalWays, Pascal(80, 10))

\* the call was answered with a value
Returned(frame) == frame.path \in {"guard", "formula"}

\* C4: no call with picks outside 1..10, or with negative picks or hits,
\* is answered with a value.
C4_RejectsInvalidDomain ==
  (call.done /\ (call.picks \notin 1..MAX_PICKS \/ call.picks < 0 \/ call.hits < 0))
  => ~Returned(call.frame)

\* the division numerator / denominator of binomial(n, k) leaves no
\* remainder, and its quotient is below 2^53 and is what ways holds
ExactQuotient(n, k, ways) ==
  /\ BigDivMod(binomialNumerator(n, k), binomialDenominator(n, k)).r = <<>>
  /\ BigCmp(BigDivMod(binomialNumerator(n, k), binomialDenominator(n, k)).q,
            TwoTo53) < 0
  /\ ExactlyBig(ways, BigDivMod(binomialNumerator(n, k), binomialDenominator(n, k)).q)

\* C9: in every call in the valid domain the three divisions leave no
\* remainder, the three results are below 2^53 and are converted exactly,
\* and waysToHit * waysToMiss is below 2^53 and is multiplied exactly.
C9_ExactIntermediates ==
  (call.done /\ ValidDomain(call.picks, call.hits))
  => /\ call.frame.path = "formula"
     /\ ExactQuotient(NUMBERS_DRAWN, call.hits, call.frame.waysToHit)
     /\ ExactQuotient(NUMBERS_NOT_DRAWN, call.picks - call.hits, call.frame.waysToMiss)
     /\ ExactQuotient(TOTAL_NUMBERS, call.picks, call.frame.totalWays)
     /\ BigCmp(BigMul(NumToBig(call.frame.waysToHit), NumToBig(call.frame.waysToMiss)),
               TwoTo53) < 0
     /\ ExactlyBig(NumMul(call.frame.waysToHit, call.frame.waysToMiss),
                   BigMul(NumToBig(call.frame.waysToHit),
                          NumToBig(call.frame.waysToMiss)))
     /\ call.frame.value = NumDiv(NumMul(call.frame.waysToHit, call.frame.waysToMiss),
                                  call.frame.totalWays)

\* the call calculateProbability(10, 5), the one with the largest product
C9_Witness ==
  /\ call.done /\ call.picks = 10 /\ call.hits = 5
  /\ ExactlyBig(call.frame.waysToHit, Pascal(20, 5))
  /\ ExactlyBig(call.frame.waysToMiss, Pascal(60, 5))
  /\ BigCmp(BigMul(Pascal(20, 5), Pascal(60, 5)), BigShl(<<1>>, 36)) > 0

(***************************************************************************)
(* server.js.  A path is a sequence of tokens: "/" is a raw slash, "%2F"   *)
(* and "%2E%2E" are percent-encoded "/" and "..", the others are literal   *)
(* pieces of text.  A segment is the token sequence between two slashes.   *)
(***************************************************************************)
DIRNAME == <<<<"app">>>>

Cons(tok, rest) == <<<<tok>> \o Head(rest)>> \o Tail(rest)

\* String.prototype.split on the separator tokens
RECURSIVE SplitFrom(_, _, _)
SplitFrom(toks, seps, i) ==
  IF i > Len(toks) THEN <<<<>>>>
  ELSE IF toks[i] \in seps THEN <<<<>>>> \o SplitFrom(toks, seps, i + 1)
  ELSE Cons(toks[i], SplitFrom(toks, seps, i + 1))

Split(toks, seps) == SplitFrom(toks, seps, 1)

\* Array.prototype.join("/")
RECURSIVE JoinFrom(_, _)
JoinFrom(segs, i) ==
  IF i > Len(segs) THEN <<>>
  ELSE IF i = 1 THEN segs[i] \o JoinFrom(segs, i + 1)
  ELSE <<"/">> \o segs[i] \o JoinFrom(segs, i + 1)

Join(segs) == JoinFrom(segs, 1)

Shorten(path) == IF path = <<>> THEN <<>> ELSE SubSeq(path, 1, Len(path) - 1)

\* the URL parser's double-dot path segment, literal or percent-encoded
IsDoubleDotSegment(seg) == seg \in {<<"..">>, <<"%2E%2E">>}

UrlPathStep(path, seg, isLast) ==
  IF IsDoubleDotSegment(seg)
  THEN IF isLast THEN Append(Shorten(path), <<>>) ELSE Shorten(path)
  ELSE Append(path, seg)

RECURSIVE UrlPathFrom(_, _, _)
UrlPathFrom(segs, i, path) ==
  IF i > Len(segs) \/ Len(path) < 0 THEN path
  ELSE UrlPathFrom(segs, i + 1, UrlPathStep(path, segs[i], i = Len(segs)))

\* new URL(req.url, base).pathname, as the list of its segments; the
\* request's tokens are what follows the leading slash of req.url
pathname(reqUrl) == UrlPathFrom(Split(reqUrl, {"/"}), 1, <<>>)

DecodeToken(tok) ==
  IF tok = "%2F" THEN "/" ELSE IF tok = "%2E%2E" THEN ".." ELSE tok

decodeURIComponent(toks) == [i \in 1..Len(toks) |-> DecodeToken(toks[i])]

NormalizeStep(acc, seg) ==
  IF seg = <<>> THEN acc
  ELSE IF seg = <<"..">> THEN Shorten(acc)
  ELSE Append(acc, seg)

RECURSIVE NormalizeFrom(_, _, _)
NormalizeFrom(segs, i, acc) ==
  IF i > Len(segs) \/ Len(acc) < 0 THEN acc
  ELSE NormalizeFrom(segs, i + 1, NormalizeStep(acc, segs[i]))

\* path.join of an absolute directory and a relative text: the segments
\* of the normalised path and whether it keeps a trailing slash
join(dir, text) ==
  [segs |-> NormalizeFrom(Split(text, {"/"}), 1, dir),
   trailing |-> text # <<>> /\ text[Len(text)] = "/"
                /\ NormalizeFrom(Split(text, {"/"}), 1, dir) # <<>>]

PAYOUTS_DIR == join(DIRNAME, <<"payouts">>)

CharsOf(tok) ==
  CASE tok = "/" -> <<"/">>
    [] tok = ".." -> <<".", ".">>
    [] tok = "%2F" -> <<"%", "2", "F">>
    [] tok = "%2E%2E" -> <<"%", "2", "E", "%", "2", "E">>
    [] tok = "app" -> <<"a", "p", "p">>
    [] tok = "api" -> <<"a", "p", "i">>
    [] tok = "public" -> <<"p", "u", "b", "l", "i", "c">>
    [] tok = "index.html" -> <<"i", "n", "d", "e", "x", ".", "h", "t", "m", "l">>
    [] tok = "payouts" -> <<"p", "a", "y", "o", "u", "t", "s">>
    [] tok = "payouts_old" -> <<"p", "a", "y", "o", "u", "t", "s", "_", "o", "l", "d">>
    [] tok = "a.csv" -> <<"a", ".", "c", "s", "v">>

RECURSIVE CharsFrom(_, _)
CharsFrom(toks, i) ==
  IF i > Len(toks) THEN <<>> ELSE CharsOf(toks[i]) \o CharsFrom(toks, i + 1)

\* the characters of a joined path
PathString(p) ==
  <<"/">> \o CharsFrom(Join(p.segs), 1) \o (IF p.trailing THEN <<"/">> ELSE <<>>)

\* String.prototype.startsWith, character by character
startsWith(str, prefix) ==
  /\ Len(str) >= Len(prefix)
  /\ \A i \in 1..Len(prefix) : str[i] = prefix[i]

\* The files of the machine the server runs on
Files ==
  {<<<<"app">>, <<"payouts">>, <<"a.csv">>>>,
   <<<<"app">>, <<"payouts_old">>, <<"a.csv">>>>,
   <<<<"app">>, <<"a.csv">>>>,
   <<<<"app">>, <<"public">>, <<"index.html">>>>,
   <<<<"app">>, <<"public">>, <<"a.csv">>>>}

Directories == {SubSeq(f, 1, n) : f \in Files, n \in 0..2} \ Files

existsSync(p) == p.segs \in Directories \/ (p.segs \in Files /\ ~p.trailing)

\* readFileSync returns the content of a regular file and throws otherwise
readFileSyncThrows(p) == ~(p.segs \in Files /\ ~p.trailing)

Pending == [status |-> 0, body |-> "none"]

isListRoute(path) == path = <<<<"api">>, <<"payouts">>>>

\* url.pathname.startsWith("/api/payouts/")
isPayoutRoute(path) ==
  Len(path) >= 3 /\ path[1] = <<"api">> /\ path[2] = <<"payouts">>

\* the decoded text after "/api/payouts/"
filename(path) == decodeURIComponent(Join(SubSeq(path, 3, Len(path))))

payoutFilePath(path) == join(PAYOUTS_DIR.segs, filename(path))

staticFilePath(path) ==
  join(DIRNAME \o <<<<"public">>>>,
       IF path = <<<<>>>> THEN <<"index.html">> ELSE <<"/">> \o Join(path))

ListPayouts ==
  /\ response = Pending
  /\ isListRoute(pathname(request))
  /\ response' = [status |-> 200, body |-> "files"]
  /\ UNCHANGED <<request, fileRead, analysisVars, call>>

ParsePayoutFile(filePath) ==
  /\ fileRead' = <<filePath>>
  /\ response' = IF readFileSyncThrows(filePath)
                 THEN [status |-> 500, body |-> "Failed to parse file"]
                 ELSE [status |-> 200, body |-> "payouts"]

GetPayoutFileAt(filePath) ==
  IF ~startsWith(PathString(filePath), PathString(PAYOUTS_DIR))
     \/ ~existsSync(filePath)
  THEN /\ response' = [status |-> 404, body |-> "File not found"]
       /\ fileRead' = <<>>
  ELSE ParsePayoutFile(filePath)

GetPayoutFile ==
  /\ response = Pending
  /\ ~isListRoute(pathname(request))
  /\ isPayoutRoute(pathname(request))
  /\ GetPayoutFileAt(payoutFilePath(pathname(request)))
  /\ UNCHANGED <<request, analysisVars, call>>

ReadStaticFile(filePath) ==
  /\ fileRead' = <<filePath>>
  /\ response' = IF readFileSyncThrows(filePath)
                 THEN [status |-> 500, body |-> "Internal Server Error"]
                 ELSE [status |-> 200, body |-> "content"]

StaticFileAt(filePath) ==
  IF ~existsSync(filePath)
  THEN /\ response' = [status |-> 404, body |-> "Not Found"]
       /\ fileRead' = <<>>
  ELSE ReadStaticFile(filePath)

StaticFile ==
  /\ response = Pending
  /\ ~isListRoute(pathname(request))
  /\ ~isPayoutRoute(pathname(request))
  /\ StaticFileAt(staticFilePath(pathname(request)))
  /\ UNCHANGED <<request, analysisVars, call>>

MaxTail == 6
MaxStatic == 2

PathTokens == {"/", "%2F", "..", "%2E%2E", "payouts_old", "a.csv"}

Tails(n) == UNION {[1..m -> PathTokens] : m \in 0..n}

\* request paths: "/api/payouts" followed by a tail, or a short path
Requests ==
  {<<"api", "/", "payouts">> \o t : t \in Tails(MaxTail)} \cup Tails(MaxStatic)

ServerInit ==
  /\ request \in Requests
  /\ response = Pending
  /\ fileRead = <<>>
  /\ AnalysisIdle
  /\ call = NoCall

ServerNext == ListPayouts \/ GetPayoutFile \/ StaticFile

SpecServer == ServerInit /\ [][ServerNext]_vars

(***************************************************************************)
(* Properties of the server                                                *)
(***************************************************************************)
\* p is the payouts directory or a path below it
InPayoutsDir(p) ==
  Len(p.segs) >= Len(PAYOUTS_DIR.segs)
  /\ SubSeq(p.segs, 1, Len(PAYOUTS_DIR.segs)) = PAYOUTS_DIR.segs

\* C10: a request under /api/payouts/ whose decoded filename resolves
\* outside the payouts directory is answered 404 and no file is read for it;
\* a file that is parsed and returned lies inside the payouts directory.
C10_NoEscape ==
  (response # Pending /\ isPayoutRoute(pathname(request)))
  => /\ ~InPayoutsDir(payoutFilePath(pathname(request)))
        => (response.status = 404 /\ fileRead = <<>>)
     /\ response.status = 200
        => (fileRead # <<>> /\ InPayoutsDir(fileRead[1]))
=============================================================================
